---- MODULE Spec2Model ----
(***************************************************************************)
(* EMA crossover backtester: src/main.py (ema_crossover_backtest,          *)
(* optimize_ema, the __main__ block) and src/app.py (the Streamlit copy of *)
(* ema_crossover_backtest).                                                *)
(*                                                                         *)
(* Bars are numbered from 1 here (TLA+ sequences), from 0 in the source    *)
(* and in the specification: bar i of the text is index i+1 below.         *)
(*                                                                         *)
(* A float64 cell of the DataFrame is modelled as an extended rational:    *)
(* NaN, +inf, -inf, or an exact fraction n/d in lowest terms.  Rounding is *)
(* not modelled; division by zero, inf*0 and NaN propagation are.          *)
(* yf.download is modelled as returning rows without missing values, so    *)
(* dropna keeps every row; closes are non-negative integers.               *)
(***************************************************************************)
EXTENDS Integers, Sequences, FiniteSets, TLC

\* ------------------------------------------------------------------ bounds
MaxLen == 5        \* longest downloaded series (bars) given to a backtest
MaxPrice == 1      \* closes are drawn from 0..MaxPrice
MaxWindow == 4     \* windows are drawn from 0..MaxWindow
OptMaxLen == 4     \* longest series given to the optimizer

\* default initial_cash
InitialCash == 10000

\* ------------------------------------------------- extended rationals
RECURSIVE GCD(_, _)
GCD(a, b) == IF b = 0 THEN a ELSE GCD(b, a % b)

Abs(x) == IF x < 0 THEN -x ELSE x

NaN == [k |-> "nan", n |-> 0, d |-> 1]
Inf == [k |-> "inf", n |-> 0, d |-> 1]
NegInf == [k |-> "ninf", n |-> 0, d |-> 1]

\* n/d, d # 0, in lowest terms with a positive denominator
Num(n, d) ==
    LET s == IF d < 0 THEN -1 ELSE 1
        g == GCD(Abs(n), Abs(d))
    IN  [k |-> "num", n |-> (s * n) \div g, d |-> (s * d) \div g]

IsNaN(x) == x.k = "nan"
IsNum(x) == x.k = "num"

Sign(x) ==
    CASE x.k = "inf" -> 1
      [] x.k = "ninf" -> -1
      [] x.k = "num" -> (IF x.n > 0 THEN 1 ELSE IF x.n < 0 THEN -1 ELSE 0)
      [] OTHER -> 0

XNeg(x) ==
    CASE x.k = "inf" -> NegInf
      [] x.k = "ninf" -> Inf
      [] x.k = "num" -> Num(-x.n, x.d)
      [] OTHER -> NaN

\* IEEE 754 addition: inf + -inf is NaN
XAdd(a, b) ==
    IF IsNaN(a) \/ IsNaN(b) THEN NaN
    ELSE IF IsNum(a) /\ IsNum(b) THEN Num(a.n * b.d + b.n * a.d, a.d * b.d)
    ELSE IF IsNum(a) THEN b
    ELSE IF IsNum(b) THEN a
    ELSE IF a.k = b.k THEN a ELSE NaN

XSub(a, b) == XAdd(a, XNeg(b))

\* IEEE 754 multiplication: inf * 0 is NaN
XMul(a, b) ==
    IF IsNaN(a) \/ IsNaN(b) THEN NaN
    ELSE IF IsNum(a) /\ IsNum(b) THEN Num(a.n * b.n, a.d * b.d)
    ELSE IF Sign(a) * Sign(b) = 0 THEN NaN
    ELSE IF Sign(a) * Sign(b) > 0 THEN Inf ELSE NegInf

\* IEEE 754 division: x/0 is +-inf, 0/0 is NaN, inf/inf is NaN
\* (every zero that reaches a divisor here is +0)
XDiv(a, b) ==
    IF IsNaN(a) \/ IsNaN(b) THEN NaN
    ELSE IF IsNum(a) /\ IsNum(b) THEN
        IF b.n # 0 THEN Num(a.n * b.d, a.d * b.n)
        ELSE IF a.n = 0 THEN NaN
        ELSE IF a.n > 0 THEN Inf ELSE NegInf
    ELSE IF IsNum(a) THEN Num(0, 1)
    ELSE IF ~IsNum(b) THEN NaN
    ELSE IF Sign(a) * (IF b.n < 0 THEN -1 ELSE 1) > 0 THEN Inf ELSE NegInf

\* a/b < c/d for b, d > 0, by continued-fraction expansion (no products)
RECURSIVE FracLess(_, _, _, _)
FracLess(a, b, c, d) ==
    LET qa == a \div b
        qc == c \div d
        ra == a % b
        rc == c % d
    IN  IF qa # qc THEN qa < qc
        ELSE IF rc = 0 THEN FALSE
        ELSE IF ra = 0 THEN TRUE
        ELSE FracLess(d, rc, b, ra)

\* the float comparison a > b: False when either side is NaN
XGreater(a, b) ==
    IF IsNaN(a) \/ IsNaN(b) THEN FALSE
    ELSE IF a.k = "inf" THEN b.k # "inf"
    ELSE IF b.k = "ninf" THEN a.k # "ninf"
    ELSE IF a.k = "ninf" \/ b.k = "inf" THEN FALSE
    ELSE FracLess(b.n, b.d, a.n, a.d)

\* the float comparison a == b: False when either side is NaN
XEq(a, b) == ~IsNaN(a) /\ ~IsNaN(b) /\ a = b

ToX(i) == Num(i, 1)

\* ------------------------------------------------------ column operations
\* EwmMean with the decay of the previous value lost: y[i] = alpha*x[i] + y[i-1]
RECURSIVE EwmNoDecay(_, _)
EwmNoDecay(xs, span) ==
    IF Len(xs) = 0 THEN <<>>
    ELSE IF Len(xs) = 1 THEN <<ToX(xs[1])>>
    ELSE LET pre == EwmNoDecay(SubSeq(xs, 1, Len(xs) - 1), span)
             prev == pre[Len(pre)]
             alpha == Num(2, span + 1)
         IN  Append(pre, Num(alpha.n * xs[Len(xs)] * prev.d + alpha.d * prev.n,
                             alpha.d * prev.d))

\* Series.ewm(span=span, adjust=False).mean():
\* y[0] = x[0], y[i] = alpha*x[i] + (1-alpha)*y[i-1], alpha = 2/(span+1)
RECURSIVE EwmMean(_, _)
EwmMean(xs, span) ==
    IF Len(xs) = 0 THEN <<>>
    ELSE IF Len(xs) = 1 THEN <<ToX(xs[1])>>
    ELSE LET pre == EwmMean(SubSeq(xs, 1, Len(xs) - 1), span)
             prev == pre[Len(pre)]
             alpha == Num(2, span + 1)
         IN  Append(pre, Num(alpha.n * xs[Len(xs)] * prev.d
                               + (alpha.d - alpha.n) * prev.n,
                             alpha.d * prev.d))

\* a column as a sequence of cells, each cell computed once
Column(f) == f \o <<>>

\* SignalCol with >= in place of >
SignalColGE(es, el) ==
    Column([i \in 1..Len(es) |-> IF XGreater(el[i], es[i]) THEN 0 ELSE 1])

\* np.where(EMA_short > EMA_long, 1, 0)
SignalCol(es, el) ==
    Column([i \in 1..Len(es) |-> IF XGreater(es[i], el[i]) THEN 1 ELSE 0])

\* Shift without the lag: the position taken on the bar of its own signal
ShiftNoLag(s) == Column([i \in 1..Len(s) |-> ToX(s[i])])

\* Series.shift(1): the first row has no predecessor and becomes NaN
Shift(s) ==
    Column([i \in 1..Len(s) |-> IF i = 1 THEN NaN ELSE ToX(s[i - 1])])

\* Series.pct_change(): x[i]/x[i-1] - 1, NaN in the first row
PctChange(xs) ==
    Column([i \in 1..Len(xs) |->
               IF i = 1 THEN NaN
               ELSE XSub(XDiv(ToX(xs[i]), ToX(xs[i - 1])), ToX(1))])

ColMul(a, b) == Column([i \in 1..Len(a) |-> XMul(a[i], b[i])])

OnePlus(a) == Column([i \in 1..Len(a) |-> XAdd(ToX(1), a[i])])

ColScale(a, c) == Column([i \in 1..Len(a) |-> XMul(a[i], ToX(c))])

\* the running products numpy forms once pandas has put 1 in the NaN cells
RECURSIVE RunningProd(_)
RunningProd(xs) ==
    IF Len(xs) = 0 THEN <<>>
    ELSE LET pre == RunningProd(SubSeq(xs, 1, Len(xs) - 1))
             last == xs[Len(xs)]
             acc == IF Len(pre) = 0 THEN ToX(1) ELSE pre[Len(pre)]
         IN  Append(pre, XMul(acc, IF IsNaN(last) THEN ToX(1) ELSE last))

\* Series.cumprod() (skipna): NaN cells stay NaN and do not enter the product
CumProd(xs) ==
    LET run == RunningProd(xs)
    IN  Column([i \in 1..Len(xs) |-> IF IsNaN(xs[i]) THEN NaN ELSE run[i]])

\* Series.prod() (skipna): the product of the cells that are not NaN
Prod(xs) ==
    LET run == RunningProd(xs)
    IN  IF Len(xs) = 0 THEN ToX(1) ELSE run[Len(xs)]

\* Series.diff(): x[i] - x[i-1], NaN in the first row
Diff(a) ==
    Column([i \in 1..Len(a) |-> IF i = 1 THEN NaN ELSE XSub(a[i], a[i - 1])])

\* data[data[col] == v].index: the dates (bar numbers) of the matching rows
RowsEqual(col, v) ==
    SelectSeq([i \in 1..Len(col) |-> i], LAMBDA i : XEq(col[i], ToX(v)))

NotNaN(xs) == SelectSeq(xs, LAMBDA x : ~IsNaN(x))

RECURSIVE SumSeq(_)
SumSeq(xs) ==
    IF Len(xs) = 0 THEN ToX(0) ELSE XAdd(xs[1], SumSeq(Tail(xs)))

\* Series.mean() (skipna): NaN when no value is defined
Mean(xs) ==
    LET v == NotNaN(xs)
    IN  IF Len(v) = 0 THEN NaN ELSE XDiv(SumSeq(v), ToX(Len(v)))

\* the square of Series.std() (skipna, ddof = 1): NaN below two defined values
Variance(xs) ==
    LET v == NotNaN(xs)
        avg == Mean(v)
        sq == Column([i \in 1..Len(v) |->
                         XMul(XSub(avg, v[i]), XSub(avg, v[i]))])
    IN  IF Len(v) < 2 THEN NaN ELSE XDiv(SumSeq(sq), ToX(Len(v) - 1))

\* (mean / std) * np.sqrt(252).  A finite value is kept as its sign and its
\* square, 252 * mean^2 / std^2; mean/0 is +-inf and 0/0 is NaN.
SharpeOf(xs) ==
    LET avg == Mean(xs)
        var == Variance(xs)
        q == XDiv(avg, IF IsNum(var) /\ var.n = 0 THEN ToX(0) ELSE ToX(1))
    IN  IF IsNaN(avg) \/ IsNaN(var) \/ IsNaN(q)
            THEN [k |-> "nan", sgn |-> 0, sq |-> NaN]
        ELSE IF ~IsNum(q) THEN [k |-> q.k, sgn |-> Sign(q), sq |-> Inf]
        ELSE [k |-> "num", sgn |-> Sign(avg),
              sq |-> XMul(ToX(252), XDiv(XMul(avg, avg), var))]

\* ------------------------------------------------------------------ state
VARIABLES
    pc,              \* "optimize": in optimize_ema; "call": about to call
                     \* ema_crossover_backtest; "done": the call has ended
    prog,            \* which file's ema_crossover_backtest ran: "main", "app"
    download,        \* the Close column yf.download returns for the symbol
    short_window,    \* argument of ema_crossover_backtest
    long_window,     \* argument of ema_crossover_backtest
    data,            \* the DataFrame, one sequence per column
    entries,         \* dates of the rows with Trade == 1
    exits,           \* dates of the rows with Trade == -1, plus the synthetic one
    trades,          \* the trades DataFrame, one record per row
    win_rate, avg_trade,
    total_return, buyhold_return, sharpe_ratio,
    error,           \* "none", or the exception that ended the call
    si, li,          \* optimize_ema: positions of short and long in their ranges
    best_return, best_params,
    tested           \* optimize_ema: the (short, long, total_return) lines printed

vars == <<pc, prog, download, short_window, long_window, data, entries, exits,
          trades, win_rate, avg_trade, total_return, buyhold_return,
          sharpe_ratio, error, si, li, best_return, best_params, tested>>

backtestVars == <<prog, data, entries, exits, trades, win_rate, avg_trade,
                  total_return, buyhold_return, sharpe_ratio, error>>

optVars == <<si, li, best_return, best_params, tested>>

\* a value no statement has assigned yet
Unset == [k |-> "unset", n |-> 0, d |-> 1]
UnsetSharpe == [k |-> "unset", sgn |-> 0, sq |-> NaN]

\* the DataFrame right after the download, before any column is added
Downloaded(close) ==
    [Close |-> close, EMA_short |-> <<>>, EMA_long |-> <<>>, Signal |-> <<>>,
     Position |-> <<>>, Return |-> <<>>, Strategy_Return |-> <<>>,
     Portfolio_Value |-> <<>>, Buy_Hold_Value |-> <<>>, Trade |-> <<>>]

\* ------------------------------------------------- ema_crossover_backtest
\* Compute EMAs, Generate Signals, Returns, Portfolio Simulation
Simulate(close, sw, lw, cash) ==
    LET es == EwmMean(close, sw)
        el == EwmMean(close, lw)
        sig == SignalCol(es, el)
        pos == Shift(sig)
        ret == PctChange(close)
        sret == ColMul(ret, pos)
    IN  [Close |-> close, EMA_short |-> es, EMA_long |-> el, Signal |-> sig,
         Position |-> pos, Return |-> ret, Strategy_Return |-> sret,
         Portfolio_Value |-> ColScale(CumProd(OnePlus(sret)), cash),
         Buy_Hold_Value |-> ColScale(CumProd(OnePlus(ret)), cash),
         Trade |-> <<>>]

\* CloseOpenTrade with the synthetic exit forgotten
NoSyntheticExit(ent, ex, lastDate) == ex

\* if len(entries) > len(exits): exits = exits.append(Index([data.index[-1]]))
CloseOpenTrade(ent, ex, lastDate) ==
    IF Len(ent) > Len(ex) THEN Append(ex, lastDate) ELSE ex

\* trades = DataFrame({'Entry': entries, 'Exit': exits}) with its price and
\* Return_% columns; the caller has checked the two lengths are equal
TradeTable(close, ent, ex) ==
    Column([j \in 1..Len(ent) |->
        [Entry |-> ent[j], Exit |-> ex[j],
         Entry_Price |-> close[ent[j]], Exit_Price |-> close[ex[j]],
         Return_pct |-> XMul(XSub(XDiv(ToX(close[ex[j]]), ToX(close[ent[j]])),
                                  ToX(1)), ToX(100))]])

\* (col.iloc[-1] / initial_cash - 1) * 100
ReturnPct(col, cash) ==
    XMul(XSub(XDiv(col[Len(col)], ToX(cash)), ToX(1)), ToX(100))

\* (trades['Return_%'] > 0).mean() * 100
WinRate(tr) ==
    Num(100 * Cardinality({j \in 1..Len(tr) :
                              XGreater(tr[j].Return_pct, ToX(0))}), Len(tr))

\* what a call leaves behind: the exception or "none", and every value the
\* statements before the exception (or the return) have assigned
Outcome(err, frame, ent, ex, tr, wr, at, total, bh, sharpe) ==
    [error |-> err, data |-> frame, entries |-> ent, exits |-> ex,
     trades |-> tr, win_rate |-> wr, avg_trade |-> at, total_return |-> total,
     buyhold_return |-> bh, sharpe_ratio |-> sharpe]

\* src/main.py ema_crossover_backtest, from the download to the metrics
MainBacktest(close, sw, lw, cash) ==
    LET n == Len(close)
        sim == Simulate(close, sw, lw, cash)
        trade == Diff(sim.Position)
        frame == [sim EXCEPT !.Trade = trade]
        ent == RowsEqual(trade, 1)
        ex == CloseOpenTrade(ent, RowsEqual(trade, -1), n)
        tr == TradeTable(close, ent, ex)
        wr == IF Len(tr) > 0 THEN WinRate(tr) ELSE ToX(0)
        at == IF Len(tr) > 0
              THEN Mean(Column([j \in 1..Len(tr) |-> tr[j].Return_pct]))
              ELSE ToX(0)
    IN  IF sw < 1 \/ lw < 1
        THEN \* ewm: "span must satisfy: span >= 1"
             Outcome("ValueError", Downloaded(close), <<>>, <<>>, <<>>,
                     Unset, Unset, Unset, Unset, UnsetSharpe)
        ELSE IF Len(ent) # Len(ex)
        THEN \* DataFrame: "All arrays must be of the same length"
             Outcome("ValueError", frame, ent, ex, <<>>,
                     Unset, Unset, Unset, Unset, UnsetSharpe)
        ELSE IF n = 0
        THEN \* iloc[-1]: "single positional indexer is out-of-bounds"
             Outcome("IndexError", frame, ent, ex, tr, wr, at,
                     Unset, Unset, UnsetSharpe)
        ELSE Outcome("none", frame, ent, ex, tr, wr, at,
                     ReturnPct(frame.Portfolio_Value, cash),
                     ReturnPct(frame.Buy_Hold_Value, cash),
                     SharpeOf(frame.Strategy_Return))

\* src/app.py ema_crossover_backtest: the same pipeline without the trade table
AppBacktest(close, sw, lw, cash) ==
    LET n == Len(close)
        frame == Simulate(close, sw, lw, cash)
    IN  IF sw < 1 \/ lw < 1
        THEN Outcome("ValueError", Downloaded(close), <<>>, <<>>, <<>>,
                     Unset, Unset, Unset, Unset, UnsetSharpe)
        ELSE IF n = 0
        THEN Outcome("IndexError", frame, <<>>, <<>>, <<>>,
                     Unset, Unset, Unset, Unset, UnsetSharpe)
        ELSE Outcome("none", frame, <<>>, <<>>, <<>>, Unset, Unset,
                     ReturnPct(frame.Portfolio_Value, cash),
                     ReturnPct(frame.Buy_Hold_Value, cash),
                     SharpeOf(frame.Strategy_Return))

Finish(r) ==
    /\ pc' = "done"
    /\ error' = r.error
    /\ data' = r.data
    /\ entries' = r.entries
    /\ exits' = r.exits
    /\ trades' = r.trades
    /\ win_rate' = r.win_rate
    /\ avg_trade' = r.avg_trade
    /\ total_return' = r.total_return
    /\ buyhold_return' = r.buyhold_return
    /\ sharpe_ratio' = r.sharpe_ratio
    /\ UNCHANGED <<download, short_window, long_window>>
    /\ UNCHANGED optVars

\* a call of src/main.py ema_crossover_backtest
ema_crossover_backtest ==
    /\ pc = "call"
    /\ prog' = "main"
    /\ \E r \in {MainBacktest(download, short_window, long_window, InitialCash)} :
          Finish(r)

\* a call of src/app.py ema_crossover_backtest
app_ema_crossover_backtest ==
    /\ pc = "call"
    /\ prog' = "app"
    /\ \E r \in {AppBacktest(download, short_window, long_window, InitialCash)} :
          Finish(r)

\* ------------------------------------------------------------ optimize_ema
\* range(start, stop, step) as a sequence
Range(start, stop, step) ==
    Column([i \in 1..((stop - start + step - 1) \div step) |->
               start + (i - 1) * step])

ShortGrid == Range(5, 21, 5)
LongGrid == Range(20, 61, 10)

\* (1 + data['Strategy_Return']).prod() - 1
TotalReturn(close, sw, lw) ==
    LET sig == SignalCol(EwmMean(close, sw), EwmMean(close, lw))
        sret == ColMul(PctChange(close), Shift(sig))
    IN  XSub(Prod(OnePlus(sret)), ToX(1))

\* if total_return > best_return
Improves(tr, best) == XGreater(tr, best)

\* one pass through the body of the inner loop, then on to the next pair
optimize_ema ==
    /\ pc = "optimize"
    /\ si <= Len(ShortGrid)
    /\ LET short == ShortGrid[si]
           long == LongGrid[li]
           tr == TotalReturn(download, short, long)
       IN  IF short >= long
           THEN UNCHANGED <<best_return, best_params, tested>>
           ELSE /\ tested' = Append(tested, <<short, long, tr>>)
                /\ IF Improves(tr, best_return)
                   THEN /\ best_return' = tr
                        /\ best_params' = <<short, long>>
                   ELSE UNCHANGED <<best_return, best_params>>
    /\ IF li < Len(LongGrid)
       THEN li' = li + 1 /\ si' = si
       ELSE li' = 1 /\ si' = si + 1
    /\ UNCHANGED <<pc, download, short_window, long_window>>
    /\ UNCHANGED backtestVars

\* return best_params, and the __main__ block passing it to the backtest
optimize_ema_return ==
    /\ pc = "optimize"
    /\ si > Len(ShortGrid)
    /\ pc' = "call"
    /\ short_window' = best_params[1]
    /\ long_window' = best_params[2]
    /\ UNCHANGED <<download, si, li, best_return, best_params, tested>>
    /\ UNCHANGED backtestVars

\* ---------------------------------------------------------- specifications
Prices == 0..MaxPrice
Windows == 0..MaxWindow

SeriesUpTo(len) == UNION {[1..m -> Prices] : m \in 0..len}

InitCommon ==
    /\ prog = "none"
    /\ data = Downloaded(<<>>)
    /\ entries = <<>>
    /\ exits = <<>>
    /\ trades = <<>>
    /\ win_rate = Unset
    /\ avg_trade = Unset
    /\ total_return = Unset
    /\ buyhold_return = Unset
    /\ sharpe_ratio = UnsetSharpe
    /\ error = "none"
    /\ si = 1
    /\ li = 1
    /\ best_return = NegInf
    /\ best_params = <<0, 0>>
    /\ tested = <<>>

\* a direct call of ema_crossover_backtest with any windows and any series
Init ==
    /\ pc = "call"
    /\ download \in SeriesUpTo(MaxLen)
    /\ short_window \in Windows
    /\ long_window \in Windows
    /\ InitCommon

Next == ema_crossover_backtest \/ app_ema_crossover_backtest

Spec == Init /\ [][Next]_vars

\* the __main__ block of src/main.py: optimize, then backtest the best pair
OptInit ==
    /\ pc = "optimize"
    /\ download \in SeriesUpTo(OptMaxLen)
    /\ short_window = 0
    /\ long_window = 0
    /\ InitCommon

OptNext == optimize_ema \/ optimize_ema_return \/ ema_crossover_backtest

OptSpec == OptInit /\ [][OptNext]_vars

\* ------------------------------------------------------------ vocabulary
Done == pc = "done"
N == Len(data.Close)
ValidSpans == short_window >= 1 /\ long_window >= 1
ValidWindows == 0 < short_window /\ short_window < long_window
Returned == Done /\ error = "none"

\* the position the specification reads at a bar: 0 where none is defined
Pos(i) == IF IsNaN(data.Position[i]) THEN 0 ELSE data.Position[i].n

\* bars whose position transition is +1 / -1, and the j-th of a set of bars
EntryBars == {i \in 2..N : Pos(i) - Pos(i - 1) = 1}
ExitBars == {i \in 2..N : Pos(i) - Pos(i - 1) = -1}
Nth(S, j) == CHOOSE x \in S : Cardinality({y \in S : y < x}) = j - 1

MinClose == CHOOSE m \in Prices : (\E i \in 1..N : data.Close[i] = m)
                                  /\ \A i \in 1..N : data.Close[i] >= m
MaxClose == CHOOSE m \in Prices : (\E i \in 1..N : data.Close[i] = m)
                                  /\ \A i \in 1..N : data.Close[i] <= m

\* lo <= x <= hi, all finite
Within(x, lo, hi) == IsNum(x) /\ ~XGreater(ToX(lo), x) /\ ~XGreater(x, ToX(hi))

\* the signal of bar i computed from the closes of bars 1..i alone
PrefixSignal(i) ==
    LET c == SubSeq(download, 1, i)
    IN  SignalCol(EwmMean(c, short_window), EwmMean(c, long_window))[i]

\* ------------------------------------------------------------------ claims
\* C1: no look-ahead.  After any backtest the position of every bar but the
\* first equals the signal of the bar before, the signal of a bar is 1 exactly
\* when its short EMA exceeds its long EMA, and the position of a bar is
\* already fixed by the closes of the bars before it.
C1_NoLookAhead ==
    (Done /\ ValidSpans) =>
        /\ Len(data.Position) = N
        /\ \A i \in 2..N :
              /\ XEq(data.Position[i], ToX(data.Signal[i - 1]))
              /\ data.Signal[i - 1] =
                    (IF XGreater(data.EMA_short[i - 1], data.EMA_long[i - 1])
                     THEN 1 ELSE 0)
              /\ XEq(data.Position[i], ToX(PrefixSignal(i - 1)))

\* a bar that is held although its own signal is 0: the position lags
C1_Witness ==
    /\ Returned
    /\ \E i \in 2..N : XEq(data.Position[i], ToX(1)) /\ data.Signal[i] = 0

\* C2: trade pairing.  With k entry transitions and k or k-1 exit transitions
\* the trade table of src/main.py has exactly k rows, row j holds the j-th
\* entry and the j-th exit with their closes, and a missing last exit is the
\* final bar with its close.
C2_TradePairing ==
    (Done /\ prog = "main" /\ ValidSpans
          /\ Cardinality(ExitBars) \in {Cardinality(EntryBars),
                                        Cardinality(EntryBars) - 1}) =>
        /\ Len(trades) = Cardinality(EntryBars)
        /\ \A j \in 1..Len(trades) :
              /\ trades[j].Entry = Nth(EntryBars, j)
              /\ trades[j].Entry_Price = data.Close[trades[j].Entry]
              /\ trades[j].Exit_Price = data.Close[trades[j].Exit]
              /\ IF j <= Cardinality(ExitBars)
                 THEN trades[j].Exit = Nth(ExitBars, j)
                 ELSE trades[j].Exit = N

\* two trades: the first closed by its own exit, the second by the final bar
C2_Witness ==
    /\ Returned
    /\ prog = "main"
    /\ Len(trades) = 2
    /\ Cardinality(ExitBars) = 1
    /\ trades[1].Exit < trades[2].Entry
    /\ trades[2].Exit = N

\* C9: EMA bounds.  For a non-empty series and 0 < short < long both EMAs
\* follow y[0] = x[0], y[i] = a*x[i] + (1-a)*y[i-1] with a = 2/(window+1) and
\* stay within [min(close), max(close)] at every bar.
C9_EmaBounds ==
    (Done /\ N >= 1 /\ ValidWindows) =>
        \A col \in {<<data.EMA_short, short_window>>,
                    <<data.EMA_long, long_window>>} :
            /\ Len(col[1]) = N
            /\ col[1][1] = ToX(data.Close[1])
            /\ \A i \in 1..N : Within(col[1][i], MinClose, MaxClose)
            /\ \A i \in 2..N :
                  XMul(col[1][i], ToX(col[2] + 1)) =
                      XAdd(ToX(2 * data.Close[i]),
                           XMul(ToX(col[2] - 1), col[1][i - 1]))

\* a bar where both EMAs lie strictly inside the range and differ
C9_Witness ==
    /\ Done
    /\ ValidWindows
    /\ \E i \in 2..N :
          /\ XGreater(data.EMA_short[i], ToX(MinClose))
          /\ XGreater(ToX(MaxClose), data.EMA_short[i])
          /\ XGreater(data.EMA_long[i], ToX(MinClose))
          /\ XGreater(ToX(MaxClose), data.EMA_long[i])
          /\ data.EMA_short[i] # data.EMA_long[i]

\* C10: entries and exits alternate, starting with an entry.  In every backtest
\* of src/main.py the first signal is 0, the first defined position is 0, the
\* rows with Trade == -1 are no more than the rows with Trade == 1 and at most
\* one fewer, each such exit lies strictly between its entry and the next
\* entry, and after the synthetic exit the two lists have the same length.
C10_Alternation ==
    (Done /\ prog = "main" /\ ValidSpans) =>
        LET ent == RowsEqual(data.Trade, 1)
            ex == RowsEqual(data.Trade, -1)
        IN  /\ N >= 1 => data.Signal[1] = 0
            /\ N >= 2 => XEq(data.Position[2], ToX(0))
            /\ Len(ex) <= Len(ent)
            /\ Len(ent) <= Len(ex) + 1
            /\ \A j \in 1..Len(ex) :
                  /\ j <= Len(ent)
                  /\ ent[j] < ex[j]
                  /\ j < Len(ent) => ex[j] < ent[j + 1]
            /\ entries = ent
            /\ Len(entries) = Len(exits)
            /\ error # "ValueError"

\* entry, exit, entry: the second trade is still open at the end
C10_Witness ==
    /\ Done
    /\ prog = "main"
    /\ Len(RowsEqual(data.Trade, 1)) = 2
    /\ Len(RowsEqual(data.Trade, -1)) = 1
    /\ Len(exits) = 2

\* C3: optimizer selection.  Once optimize_ema has returned, the pair it
\* returns is one of the tested pairs, no tested pair has a greater total
\* return, and no pair tested before it has the same total return.
C3_OptimizerSelection ==
    (pc \in {"call", "done"}) =>
        \E b \in 1..Len(tested) :
            /\ best_params = <<tested[b][1], tested[b][2]>>
            /\ XEq(best_return, tested[b][3])
            /\ \A j \in 1..Len(tested) : ~XGreater(tested[j][3], tested[b][3])
            /\ \A j \in 1..(b - 1) : ~XEq(tested[j][3], tested[b][3])

\* C4: window validation.  A backtest called with short >= long, or with a
\* window <= 0, ends with an error and leaves no signal series and no metrics.
C4_InvalidWindow ==
    (Done /\ (short_window >= long_window \/ short_window <= 0
                \/ long_window <= 0)) =>
        /\ error # "none"
        /\ data.Signal = <<>>
        /\ total_return = Unset
        /\ buyhold_return = Unset
        /\ sharpe_ratio = UnsetSharpe

\* C5: undefined Sharpe.  When a backtest with 0 < short < long returns and
\* the defined strategy returns are all equal (or there are none), the Sharpe
\* ratio is NaN.
C5_UndefinedSharpe ==
    (Returned /\ ValidWindows) =>
        LET v == NotNaN(data.Strategy_Return)
        IN  (\A i, j \in 1..Len(v) : v[i] = v[j]) => sharpe_ratio.k = "nan"

\* C6: portfolio value is defined at every bar.  After a backtest with
\* 0 < short < long both value columns start at initial_cash and grow by
\* 1 + Return * Position (by 1 + Return for buy and hold) from bar to bar.
C6_PortfolioRecurrence ==
    (Returned /\ ValidWindows) =>
        /\ XEq(data.Portfolio_Value[1], ToX(InitialCash))
        /\ XEq(data.Buy_Hold_Value[1], ToX(InitialCash))
        /\ \A i \in 2..N :
              /\ XEq(data.Portfolio_Value[i],
                     XMul(data.Portfolio_Value[i - 1],
                          XAdd(ToX(1), XMul(data.Return[i], data.Position[i]))))
              /\ XEq(data.Buy_Hold_Value[i],
                     XMul(data.Buy_Hold_Value[i - 1],
                          XAdd(ToX(1), data.Return[i])))

\* C7: insufficient data.  A backtest with 0 < short < long of fewer than 2
\* bars ends with an error and returns no metrics.
C7_InsufficientData ==
    (Done /\ ValidWindows /\ Len(download) < 2) =>
        /\ error # "none"
        /\ total_return = Unset
        /\ buyhold_return = Unset
        /\ sharpe_ratio = UnsetSharpe

\* C8: zero is absorbing.  When a backtest with 0 < short < long returns and a
\* held bar j closes at 0 after a positive close, the portfolio value is 0 at
\* bar j and at every later bar whose return is defined (previous close > 0).
C8_ZeroAbsorbing ==
    (Returned /\ ValidWindows) =>
        \A j \in 2..N :
            (/\ XEq(data.Position[j], ToX(1))
             /\ data.Close[j] = 0
             /\ data.Close[j - 1] > 0) =>
                /\ XEq(data.Strategy_Return[j], ToX(-1))
                /\ XEq(data.Portfolio_Value[j], ToX(0))
                /\ \A i \in (j + 1)..N :
                      data.Close[i - 1] > 0 =>
                          XEq(data.Portfolio_Value[i], ToX(0))

====
